---- MODULE Spec2Model ----
(***************************************************************************)
(* Model of src/letterboxd.js: the three entry points fetchRecentActivity, *)
(* fetchWatchedFilms and fetchWatchlist, the listing parser parseFilmsPage *)
(* and the entity decoder decodeHtmlEntities.                              *)
(*                                                                         *)
(* Text is a sequence of tokens.  A token is a string that the regular     *)
(* expressions of the source never split: a tag ("<item>"), a delimiter    *)
(* ("<![CDATA[", the double quote), a glyph (the star, written "[star]"),  *)
(* a word, a digit group, a blank.                                         *)
(* Every regular expression is an operator that scans the token sequence   *)
(* the way the JavaScript engine scans the characters: leftmost start,     *)
(* lazy or greedy quantifiers as written, "." stopping at a newline.       *)
(*                                                                         *)
(* An optional field (string|null in the source) is a sequence of length   *)
(* 0 (null) or 1 (the string), so that null and "" stay distinct.          *)
(***************************************************************************)
EXTENDS Integers, Sequences, FiniteSets, TLC

\* ------------------------------------------------------------------ bounds
\* number of top-level calls that may run concurrently
NumCalls == 2
\* a short profile holds at most this many listing pages (sequential runs; the
\* long profiles end one page before, at and one page after each ceiling)
ShortProfile == 3
\* largest number of listing pages the remote profile holds (concurrent runs)
ConcProfilePages == 1

\* ------------------------------------------------------- optional values
Null == << >>
Some(v) == << v >>

\* --------------------------------------------------------- token classes
Newline == "\n"
Spaces == {" ", Newline}
Digits4 == {"1995", "2024"}
Digits2 == {"10"}
DigitTokens == Digits4 \cup Digits2
WordTokens == {"Heat", "Monday", "June", "Watched", "Rewatched", "on", "and"} \cup DigitTokens
Star == "[star]"
Half == "[half]"
Quote == "\""

\* ---------------------------------------------------------- scan helpers
\* pat occurs in s at index i
StartsAt(s, pat, i) ==
  /\ i >= 1
  /\ i + Len(pat) - 1 <= Len(s)
  /\ \A k \in 1..Len(pat) : s[i + k - 1] = pat[k]

\* the least and the greatest element of a non-empty set of indices
Least(S) == CHOOSE i \in S : \A k \in S : i <= k
Greatest(S) == CHOOSE i \in S : \A k \in S : k <= i
LeastOr(S, none) == IF S = {} THEN none ELSE Least(S)

\* least index >= i at which pat occurs in s, 0 when there is none
RECURSIVE IndexOf(_, _, _)
IndexOf(s, pat, i) ==
  IF i + Len(pat) - 1 > Len(s) THEN 0
  ELSE IF StartsAt(s, pat, i) THEN i
  ELSE IndexOf(s, pat, i + 1)

\* first index >= i of s whose token is not in class (Len(s)+1 at the end)
RunEnd(s, i, class) == LeastOr({j \in i..Len(s) : s[j] \notin class}, Len(s) + 1)

NoMatch == [found |-> FALSE, cap |-> << >>, end |-> 0]

\* the body of  open(.*?)close  or  open([\s\S]*?)close  anchored at start i:
\* the lazy group stops at the first close; without dotAll it cannot cross a
\* newline
LazyBody(s, close, dotAll, from, j) ==
  IF j = 0 THEN NoMatch
  ELSE IF ~dotAll /\ \E k \in from..(j - 1) : s[k] = Newline THEN NoMatch
  ELSE [found |-> TRUE, cap |-> SubSeq(s, from, j - 1), end |-> j + Len(close)]

LazyAt(s, open, close, dotAll, i) ==
  IF ~StartsAt(s, open, i) THEN NoMatch
  ELSE LazyBody(s, close, dotAll, i + Len(open), IndexOf(s, close, i + Len(open)))

\* first match of the regular expression at or after index pos (RegExp.exec
\* with lastIndex = pos - 1; String.match is the case pos = 1)
RECURSIVE LazyMatch(_, _, _, _, _)
LazyOrNext(s, open, close, dotAll, pos, match) ==
  IF match.found THEN match ELSE LazyMatch(s, open, close, dotAll, pos + 1)
LazyMatch(s, open, close, dotAll, pos) ==
  IF pos > Len(s) THEN NoMatch
  ELSE LazyOrNext(s, open, close, dotAll, pos, LazyAt(s, open, close, dotAll, pos))

\* ------------------------------------------------------------ feed parser
ItemOpen == <<"<item>">>
ItemClose == <<"</item>">>
TitleOpen == <<"<title>">>
TitleClose == <<"</title>">>
CdataOpen == <<"<![CDATA[">>
CdataClose == <<"]]>">>
LinkOpen == <<"<link>">>
LinkClose == <<"</link>">>
DescOpen == <<"<description>">>
DescClose == <<"</description>">>

\* while ((match = itemRegex.exec(xml)) !== null): the item bodies in order
RECURSIVE FeedItems(_, _)
ItemsAfter(xml, match) ==
  IF ~match.found THEN << >> ELSE << match.cap >> \o FeedItems(xml, match.end)
FeedItems(xml, pos) == ItemsAfter(xml, LazyMatch(xml, ItemOpen, ItemClose, TRUE, pos))

\* item.match(cdata title) || item.match(plain title)
OrElse(first, second) == IF first.found THEN first ELSE second
TitleMatch(item) ==
  OrElse(LazyMatch(item, TitleOpen \o CdataOpen, CdataClose \o TitleClose, FALSE, 1),
         LazyMatch(item, TitleOpen, TitleClose, FALSE, 1))

LinkMatch(item) == LazyMatch(item, LinkOpen, LinkClose, FALSE, 1)

DescMatch(item) ==
  LazyMatch(item, DescOpen \o CdataOpen, CdataClose \o DescClose, TRUE, 1)

\* fullTitle.match(/^(.+),\s*(\d{4})$/): the year is the last token, before
\* it blanks, before them the comma, before it a non-empty text without a
\* newline
RECURSIVE BlanksBefore(_, _)
BlanksBefore(s, i) ==
  IF i >= 1 /\ s[i] \in Spaces THEN BlanksBefore(s, i - 1) ELSE i

TitleYearMatch(fullTitle) ==
  LET n == Len(fullTitle)
      k == IF n >= 1 THEN BlanksBefore(fullTitle, n - 1) ELSE 0
  IN IF /\ n >= 1
        /\ fullTitle[n] \in Digits4
        /\ k >= 2
        /\ fullTitle[k] = ","
        /\ \A j \in 1..(k - 1) : fullTitle[j] # Newline
     THEN [found |-> TRUE, title |-> SubSeq(fullTitle, 1, k - 1), year |-> fullTitle[n]]
     ELSE [found |-> FALSE, title |-> << >>, year |-> ""]

\* desc.match(/[star]+[half]?/), with the star and half-star glyphs of the
\* source: the first star, the whole run of stars after it, and a half glyph
\* when one follows
RatingRun(desc, i, j) ==
  IF j <= Len(desc) /\ desc[j] = Half THEN Some(SubSeq(desc, i, j))
  ELSE Some(SubSeq(desc, i, j - 1))
RatingFrom(desc, i) == IF i = 0 THEN Null ELSE RatingRun(desc, i, RunEnd(desc, i, {Star}))
RatingMatch(desc) == RatingFrom(desc, IndexOf(desc, <<Star>>, 1))

\* desc.includes('Rewatched')
Includes(desc, word) == \E i \in 1..Len(desc) : desc[i] = word

\* /Watched on\s+\w+\s+(\w+\s+\d+,\s+\d{4})/ anchored at start i
WatchedOn == <<"Watched", " ", "on">>
DateAt(desc, i) ==
  LET p1 == i + Len(WatchedOn)
      p2 == RunEnd(desc, p1, Spaces)
      p3 == RunEnd(desc, p2, WordTokens)
      p4 == RunEnd(desc, p3, Spaces)
      p5 == RunEnd(desc, p4, WordTokens)
      p6 == RunEnd(desc, p5, Spaces)
      p7 == RunEnd(desc, p6, DigitTokens)
      p8 == RunEnd(desc, p7 + 1, Spaces)
  IN IF /\ StartsAt(desc, WatchedOn, i)
        /\ p2 > p1 /\ p3 > p2 /\ p4 > p3 /\ p5 > p4 /\ p6 > p5 /\ p7 > p6
        /\ p7 <= Len(desc) /\ desc[p7] = ","
        /\ p8 > p7 + 1
        /\ p8 <= Len(desc) /\ desc[p8] \in Digits4
     THEN Some(SubSeq(desc, p4, p8))
     ELSE Null

DateMatch(desc) == DateAt(desc, LeastOr({i \in 1..Len(desc) : DateAt(desc, i) # Null}, 0))

\* one iteration of the item loop: << >> when the item is skipped
\* (if (!titleMatch) continue), otherwise the one record pushed
ParseItem(item) ==
  LET titleMatch == TitleMatch(item)
      linkMatch == LinkMatch(item)
      descMatch == DescMatch(item)
      fullTitle == titleMatch.cap
      titleYearMatch == TitleYearMatch(fullTitle)
      desc == descMatch.cap
  IN IF ~titleMatch.found THEN << >>
     ELSE << [ title |-> IF titleYearMatch.found THEN titleYearMatch.title ELSE fullTitle,
               year |-> IF titleYearMatch.found THEN Some(<<titleYearMatch.year>>) ELSE Null,
               rating |-> IF descMatch.found THEN RatingMatch(desc) ELSE Null,
               watchDate |-> IF descMatch.found THEN DateMatch(desc) ELSE Null,
               link |-> IF linkMatch.found THEN Some(linkMatch.cap) ELSE Null,
               rewatch |-> IF descMatch.found THEN Includes(desc, "Rewatched") ELSE FALSE ] >>

RECURSIVE ParseItems(_)
ParseItems(items) ==
  IF items = << >> THEN << >>
  ELSE ParseItem(Head(items)) \o ParseItems(Tail(items))

\* the films fetchRecentActivity builds from the document text
ParseFeed(xml) == ParseItems(FeedItems(xml, 1))

\* --------------------------------------------------------- listing parser
TargetOpen == "data-target-link=\""
AltOpen == "alt=\""
TagEnd == ">"
ImgOpen == "<img"
FilmPrefix == "/film/"
SiteOrigin == "https://letterboxd.com"

\* decodeHtmlEntities: the five known entities, one pass, anything else kept
Entities ==
  [e \in {"&#039;", "&amp;", "&lt;", "&gt;", "&quot;"} |->
     CASE e = "&#039;" -> "'"
       [] e = "&amp;" -> "&"
       [] e = "&lt;" -> "<"
       [] e = "&gt;" -> ">"
       [] e = "&quot;" -> Quote]

decodeHtmlEntities(str) ==
  [i \in 1..Len(str) |-> IF str[i] \in DOMAIN Entities THEN Entities[str[i]] ELSE str[i]]

\* alt="([^"]+)" with the attribute opening at index a and the next double
\* quote at index e: a non-empty value
AltValue(html, a, e) ==
  IF e > a + 1
  THEN [found |-> TRUE, cap |-> SubSeq(html, a + 1, e - 1), end |-> e + 1]
  ELSE NoMatch
AltAt(html, a) ==
  IF a >= 1 /\ a <= Len(html) /\ html[a] = AltOpen
  THEN AltValue(html, a, IndexOf(html, <<Quote>>, a + 1))
  ELSE NoMatch

\* <img[^>]*alt="([^"]+)" with the tag opening at index m: [^>]* is greedy, so
\* the last alt attribute before the tag's ">" that has a non-empty value
ImgAlts(html, m, g) ==
  {a \in (m + 1)..(IF g = 0 THEN Len(html) ELSE g - 1) : AltAt(html, a).found}
LastAlt(html, alts) == IF alts = {} THEN NoMatch ELSE AltAt(html, Greatest(alts))
ImgAt(html, m) ==
  IF html[m] # ImgOpen THEN NoMatch
  ELSE LastAlt(html, ImgAlts(html, m, IndexOf(html, <<TagEnd>>, m + 1)))

\* the whole pattern anchored at start i, left to right:
\*   data-target-link="(\/film\/[^"]+\/)"   up to the closing quote at q
\*   [^>]*>                                 up to the first ">" at g
\*   [\s\S]*?<img[^>]*alt="([^"]+)"         the first <img after g that has
\*                                          such an alt
NoFilm == [found |-> FALSE, link |-> << >>, alt |-> << >>, end |-> 0]
FilmImg(html, i, q, img) ==
  IF img.found
  THEN [found |-> TRUE, link |-> SubSeq(html, i + 1, q - 1), alt |-> img.cap, end |-> img.end]
  ELSE NoFilm
RECURSIVE FirstImg(_, _)
ImgOrNext(html, m, img) == IF img.found THEN img ELSE FirstImg(html, m + 1)
FirstImg(html, m) ==
  IF m > Len(html) THEN NoMatch ELSE ImgOrNext(html, m, ImgAt(html, m))
FilmTag(html, i, q, g) ==
  IF g = 0 THEN NoFilm ELSE FilmImg(html, i, q, FirstImg(html, g + 1))
FilmLink(html, i, q) ==
  IF q >= i + 4 /\ html[q - 1] = "/"
  THEN FilmTag(html, i, q, IndexOf(html, <<TagEnd>>, q + 1))
  ELSE NoFilm
FilmAt(html, i) ==
  IF StartsAt(html, <<TargetOpen, FilmPrefix>>, i)
  THEN FilmLink(html, i, IndexOf(html, <<Quote>>, i + 2))
  ELSE NoFilm

\* pattern.exec(html) with lastIndex = pos - 1
RECURSIVE FilmMatch(_, _)
FilmOrNext(html, pos, match) == IF match.found THEN match ELSE FilmMatch(html, pos + 1)
FilmMatch(html, pos) ==
  IF pos > Len(html) THEN NoFilm ELSE FilmOrNext(html, pos, FilmAt(html, pos))

\* the record one match pushes
ListedFilm(match) ==
  [ title |-> decodeHtmlEntities(match.alt),
    year |-> Null,
    rating |-> Null,
    watchDate |-> Null,
    link |-> Some(<<SiteOrigin>> \o match.link),
    rewatch |-> FALSE ]

\* while ((match = pattern.exec(html)) !== null)
RECURSIVE FilmsFrom(_, _)
FilmsAfter(html, match) ==
  IF ~match.found THEN << >>
  ELSE << ListedFilm(match) >> \o FilmsFrom(html, match.end)
FilmsFrom(html, pos) == FilmsAfter(html, FilmMatch(html, pos))

parseFilmsPage(html) == FilmsFrom(html, 1)

\* ------------------------------------------------------ the remote site
\* What the transport collaborator (fetch) can answer.  The profile holds
\* site.pages listing pages whose markup follows site.style, and one feed
\* document site.feed.
Styles == {"plain", "entities", "emptyalt", "otherlink"}

Poster(path, slug, title) ==
  <<"<div", TargetOpen, path, slug, "/", Quote, "class=poster", TagEnd,
    ImgOpen, "src=", AltOpen>> \o title \o <<Quote, TagEnd, "</div>">>

Slug(listing, p, n) == listing \o "-" \o ToString(p) \o "-" \o n

Chrome == <<"<body>", ImgOpen, AltOpen, "avatar", Quote, TagEnd>>

\* the markup of page p of a listing ("films" or "watchlist")
PageHtml(st, listing, p) ==
  IF p > st.pages THEN Chrome
  ELSE CASE st.style = "plain" ->
              Chrome \o Poster(FilmPrefix, Slug(listing, p, "a"), <<"Heat", " ", ToString(p)>>)
                     \o Poster(FilmPrefix, Slug(listing, p, "b"), <<"Ran">>)
         [] st.style = "entities" ->
              Chrome \o Poster(FilmPrefix, Slug(listing, p, "a"),
                               <<"Tom", "&amp;", "Jerry", "&eacute;", "&quot;", "&amp;", "lt;">>)
         [] st.style = "emptyalt" ->
              Chrome \o Poster(FilmPrefix, Slug(listing, p, "a"), << >>)
                     \o Poster(FilmPrefix, Slug(listing, p, "b"), <<"Ran">>)
         [] st.style = "otherlink" ->
              Chrome \o Poster("/list/", Slug(listing, p, "a"), <<"Top", " ", "10">>)
                     \o Poster(FilmPrefix, Slug(listing, p, "b"), <<"Ran">>)

\* the body that comes with a non-success status: an error page that still
\* shows a poster
ErrorHtml == Chrome \o Poster(FilmPrefix, "popular", <<"Not", " ", "Found">>)

\* the URL templates; ${page} stays the number it is
FeedUrl(username) == <<SiteOrigin, "/", username, "/rss/">>
FilmsUrl(username, p) == <<SiteOrigin, "/", username, "/films/page/", p, "/">>
WatchlistUrl(username, p) == <<SiteOrigin, "/", username, "/watchlist/page/", p, "/">>
\* the template of the listing a call walks
ListingUrl(k, username, p) ==
  IF k = "films" THEN FilmsUrl(username, p) ELSE WatchlistUrl(username, p)

\* the page index a listing URL names
PageOf(url) == url[5]

\* the answer to one request: outcome "ok" (success status), "fail"
\* (non-success status) or "neterr" (the fetch promise rejects)
Serve(st, url, outcome) ==
  [ ok |-> outcome = "ok",
    body |-> IF url[4] = "/rss/"
             THEN (IF outcome = "ok" THEN st.feed ELSE ErrorHtml)
             ELSE IF outcome = "ok"
                  THEN PageHtml(st, IF url[4] = "/films/page/" THEN "films" ELSE "watchlist",
                                PageOf(url))
                  ELSE ErrorHtml ]

Outcomes == {"ok", "fail", "neterr"}

\* ------------------------------------------------------- feed documents
TitleTexts ==
  { << >>, <<"Heat">>, <<"Heat", ",", " ", "1995">>, <<"Heat", ",", " ", "and", ",", "1995">> }
TitleParts ==
  {<< >>} \cup {TitleOpen \o t \o TitleClose : t \in TitleTexts}
          \cup {TitleOpen \o CdataOpen \o t \o CdataClose \o TitleClose : t \in TitleTexts}
LinkParts == { << >>, LinkOpen \o <<"https://letterboxd.com/u/film/heat/">> \o LinkClose }
DescTexts ==
  { << >>,
    <<"<p>", Star, Star, Star, Half, "</p>">>,
    <<Star, Star, Star, Star, Star, Star>>,
    <<"Rewatched", " ", "on", " ", "Monday">>,
    <<"Watched", " ", "on", " ", "Monday", " ", "June", " ", "10", ",", " ", "2024",
      Newline, Star, Star, Star, Star, Star>>,
    <<Half, " ", "Rewatched", " ", Star, " ", Star, Star>> }
DescParts ==
  {<< >>} \cup {DescOpen \o d \o DescClose : d \in DescTexts}
          \cup {DescOpen \o CdataOpen \o d \o CdataClose \o DescClose : d \in DescTexts}

ItemBodies == {t \o l \o d : t \in TitleParts, l \in LinkParts, d \in DescParts}
Channel == <<"<channel>", "<title>", "Letterboxd", "</title>">>
Item(body) == ItemOpen \o body \o ItemClose
PlainItem == Item(TitleOpen \o <<"Heat">> \o TitleClose)
FeedDocs ==
  {Channel \o Item(b) : b \in ItemBodies}
    \cup { Channel,
           Channel \o PlainItem \o Item(TitleOpen \o <<"Ran">> \o TitleClose) \o PlainItem,
           Channel \o PlainItem \o ItemOpen \o TitleOpen \o <<"Ran">> \o TitleClose }
DefaultFeed == Channel \o PlainItem

\* --------------------------------------------------------------- the state
\* while (page <= 50) in fetchWatchedFilms, while (page <= 20) in fetchWatchlist
WatchedCeiling == 50
WatchlistCeiling == 20

\* the profiles tried: short ones in every markup style, and long ones that
\* end one page before, at and one page after each ceiling
ShortProfiles == [pages : 0..ShortProfile, style : Styles, feed : {DefaultFeed}]
LongProfiles ==
  [pages : ((WatchlistCeiling - 1)..(WatchlistCeiling + 1))
             \cup ((WatchedCeiling - 1)..(WatchedCeiling + 1)),
   style : {"plain"}, feed : {DefaultFeed}]

Calls == 1..NumCalls
Usernames == {"u"}

VARIABLES
  site,       \* the remote profile: [pages, style, feed]
  active,     \* the calls the caller makes
  kind,       \* per call: "none", "feed", "films", "watchlist"
  username,   \* per call: the argument
  pc,         \* per call: "idle", "fetch" (awaiting fetch), "text" (awaiting
              \* response.text()), "done" (resolved), "failed" (rejected)
  page,       \* per call: the local page
  films,      \* per call: the local films
  response,   \* per call: the local response
  result,     \* per call: the value the promise resolved to
  requested,  \* per call: the URLs fetched so far, in order
  received,   \* per call: the settled fetches so far, in order
  inflight    \* per call: fetches issued and not yet settled

vars == <<site, active, kind, username, pc, page, films, response, result,
          requested, received, inflight>>

NoResponse == [ok |-> FALSE, body |-> << >>]

InitCalls ==
  /\ kind = [c \in Calls |-> "none"]
  /\ username = [c \in Calls |-> ""]
  /\ pc = [c \in Calls |-> "idle"]
  /\ page = [c \in Calls |-> 0]
  /\ films = [c \in Calls |-> << >>]
  /\ response = [c \in Calls |-> NoResponse]
  /\ result = [c \in Calls |-> << >>]
  /\ requested = [c \in Calls |-> << >>]
  /\ received = [c \in Calls |-> << >>]
  /\ inflight = [c \in Calls |-> 0]

\* one caller, one call at a time, listings short and around the ceilings
Init ==
  /\ InitCalls
  /\ active = {1}
  /\ site \in ShortProfiles \cup LongProfiles

\* one caller, one call at a time, any feed document
InitFeed ==
  /\ InitCalls
  /\ active = {1}
  /\ site \in [pages : {1}, style : {"plain"}, feed : FeedDocs]

\* a caller that issues all its calls concurrently
InitConc ==
  /\ InitCalls
  /\ active = Calls
  /\ site \in [pages : 0..ConcProfilePages, style : {"plain"}, feed : {DefaultFeed}]

\* ------------------------------------------------------------ transport
\* fetch(url): the request leaves, the caller is suspended at the await
IssueFetch(c, url) ==
  /\ requested' = [requested EXCEPT ![c] = Append(@, url)]
  /\ inflight' = [inflight EXCEPT ![c] = @ + 1]

\* the pending fetch of call c settles with the given outcome
SettleFetch(c, outcome) ==
  LET url == requested[c][Len(requested[c])]
  IN /\ received' = [received EXCEPT ![c] =
                       Append(@, [url |-> url, outcome |-> outcome,
                                  body |-> Serve(site, url, outcome).body])]
     /\ inflight' = [inflight EXCEPT ![c] = @ - 1]

\* return films
Return(c, value) ==
  /\ pc' = [pc EXCEPT ![c] = "done"]
  /\ result' = [result EXCEPT ![c] = value]

\* ------------------------------------------------- fetchWatchedFilms/list
\* while (page <= ceiling)
LoopTestOffByOne(p, ceiling) == p <= ceiling + 1
LoopTest(p, ceiling) == p <= ceiling
\* if (!response.ok) break
ResponseNeverFailed(resp) == FALSE
ResponseFailed(resp) == ~resp.ok
\* if (pageFilms.length === 0) break
PageNeverEmpty(pageFilms) == FALSE
PageIsEmpty(pageFilms) == Len(pageFilms) = 0
\* films.push(...pageFilms): the call's own array grows
PushShared(fs, c, pageFilms) == [d \in DOMAIN fs |-> fs[d] \o pageFilms]
Push(fs, c, pageFilms) == [fs EXCEPT ![c] = @ \o pageFilms]
\* page++
SkipPage(p) == p + 2
NextPage(p) == p + 1

\* the call starts: const films = []; let page = 1; first loop test and fetch
ListingStart(c, k, user, ceiling) ==
  /\ pc[c] = "idle"
  /\ kind' = [kind EXCEPT ![c] = k]
  /\ username' = [username EXCEPT ![c] = user]
  /\ films' = [films EXCEPT ![c] = << >>]
  /\ page' = [page EXCEPT ![c] = 1]
  /\ IF LoopTest(1, ceiling)
     THEN /\ IssueFetch(c, ListingUrl(k, user, 1))
          /\ pc' = [pc EXCEPT ![c] = "fetch"]
          /\ UNCHANGED result
     ELSE /\ Return(c, << >>)
          /\ UNCHANGED <<requested, inflight>>
  /\ UNCHANGED <<site, active, response, received>>

\* await fetch(url) settles; if (!response.ok) break; then response.text()
ListingFetchSettles(c, k) ==
  /\ pc[c] = "fetch"
  /\ kind[c] = k
  /\ \E outcome \in Outcomes :
       LET resp == Serve(site, requested[c][Len(requested[c])], outcome)
       IN /\ SettleFetch(c, outcome)
          /\ IF outcome = "neterr"
             THEN /\ pc' = [pc EXCEPT ![c] = "failed"]
                  /\ UNCHANGED <<response, result>>
             ELSE /\ response' = [response EXCEPT ![c] = resp]
                  /\ IF ResponseFailed(resp)
                     THEN Return(c, films[c])
                     ELSE /\ pc' = [pc EXCEPT ![c] = "text"]
                          /\ UNCHANGED result
  /\ UNCHANGED <<site, active, kind, username, page, films, requested>>

\* const html = await response.text(); const pageFilms = parseFilmsPage(html)
PageFilms(c) == parseFilmsPage(response[c].body)

\* await response.text() settles; parse; break on an empty page; push;
\* page++; next loop test and fetch, or return
ListingTextSettles(c, k, ceiling) ==
  /\ pc[c] = "text"
  /\ kind[c] = k
  /\ IF PageIsEmpty(PageFilms(c))
     THEN /\ Return(c, films[c])
          /\ UNCHANGED <<films, page, requested, inflight>>
     ELSE /\ films' = Push(films, c, PageFilms(c))
          /\ page' = [page EXCEPT ![c] = NextPage(page[c])]
          /\ IF LoopTest(NextPage(page[c]), ceiling)
             THEN /\ IssueFetch(c, ListingUrl(k, username[c], NextPage(page[c])))
                  /\ pc' = [pc EXCEPT ![c] = "fetch"]
                  /\ UNCHANGED result
             ELSE /\ Return(c, films'[c])
                  /\ UNCHANGED <<requested, inflight>>
  /\ UNCHANGED <<site, active, kind, username, response, received>>

fetchWatchedFilms(c) ==
  \E user \in Usernames : ListingStart(c, "films", user, WatchedCeiling)
WatchedFetchSettles(c) == ListingFetchSettles(c, "films")
WatchedTextSettles(c) == ListingTextSettles(c, "films", WatchedCeiling)

fetchWatchlist(c) ==
  \E user \in Usernames : ListingStart(c, "watchlist", user, WatchlistCeiling)
WatchlistFetchSettles(c) == ListingFetchSettles(c, "watchlist")
WatchlistTextSettles(c) == ListingTextSettles(c, "watchlist", WatchlistCeiling)

\* ---------------------------------------------------- fetchRecentActivity
fetchRecentActivity(c) ==
  /\ pc[c] = "idle"
  /\ \E user \in Usernames :
       /\ kind' = [kind EXCEPT ![c] = "feed"]
       /\ username' = [username EXCEPT ![c] = user]
       /\ IssueFetch(c, FeedUrl(user))
  /\ pc' = [pc EXCEPT ![c] = "fetch"]
  /\ UNCHANGED <<site, active, page, films, response, result, received>>

\* await fetch(url) settles; the status is not looked at; response.text()
FeedFetchSettles(c) ==
  /\ pc[c] = "fetch"
  /\ kind[c] = "feed"
  /\ \E outcome \in Outcomes :
       /\ SettleFetch(c, outcome)
       /\ IF outcome = "neterr"
          THEN /\ pc' = [pc EXCEPT ![c] = "failed"]
               /\ UNCHANGED response
          ELSE /\ pc' = [pc EXCEPT ![c] = "text"]
               /\ response' = [response EXCEPT ![c] =
                                 Serve(site, requested[c][Len(requested[c])], outcome)]
  /\ UNCHANGED <<site, active, kind, username, page, films, result, requested>>

\* await response.text() settles; the item loop; return films
FeedTextSettles(c) ==
  /\ pc[c] = "text"
  /\ kind[c] = "feed"
  /\ LET xml == response[c].body
     IN /\ films' = [films EXCEPT ![c] = ParseFeed(xml)]
        /\ Return(c, ParseFeed(xml))
  /\ UNCHANGED <<site, active, kind, username, page, response, requested, received, inflight>>

\* ------------------------------------------------------- specifications
Next ==
  \E c \in active :
    \/ fetchWatchedFilms(c)
    \/ WatchedFetchSettles(c)
    \/ WatchedTextSettles(c)
    \/ fetchWatchlist(c)
    \/ WatchlistFetchSettles(c)
    \/ WatchlistTextSettles(c)
    \/ fetchRecentActivity(c)
    \/ FeedFetchSettles(c)
    \/ FeedTextSettles(c)

Spec == Init /\ [][Next]_vars
SpecFeed == InitFeed /\ [][Next]_vars
SpecConc == InitConc /\ [][Next]_vars

\* ------------------------------------------------------------- the claims
IsListing(c) == kind[c] \in {"films", "watchlist"}
\* a settled fetch with a success status whose body parses to at least one film
GoodPage(r) == r.outcome = "ok" /\ parseFilmsPage(r.body) # << >>
\* a settled fetch with a success status whose body parses to no film
EmptyPage(r) == r.outcome = "ok" /\ parseFilmsPage(r.body) = << >>
\* every page received so far was a good page (the last one is looked at first)
AllGood(c) ==
  /\ received[c] # << >>
  /\ GoodPage(received[c][Len(received[c])])
  /\ \A k \in DOMAIN received[c] : GoodPage(received[c][k])
\* the films of the first n bodies received, in page order
RECURSIVE FilmsOfPages(_, _)
FilmsOfPages(rs, n) ==
  IF n = 0 THEN << >> ELSE FilmsOfPages(rs, n - 1) \o parseFilmsPage(rs[n].body)

\* C1: in fetchWatchedFilms and fetchWatchlist, when pages 1..k-1 were
\* successful and non-empty and page k is successful and parses to no film,
\* no page above k is ever requested, the call does not fail, and what it
\* returns is the concatenation of the films of pages 1..k-1 in page order.
C1_StopsAtEmptyPage ==
  \A c \in Calls :
    IsListing(c) =>
      \A k \in DOMAIN received[c] :
        (/\ received[c][k].outcome = "ok"
         /\ EmptyPage(received[c][k])
         /\ \A j \in 1..(k - 1) : GoodPage(received[c][j]))
        => /\ \A i \in DOMAIN requested[c] : PageOf(requested[c][i]) <= k
           /\ pc[c] \in {"text", "done"}
           /\ pc[c] = "done" => result[c] = FilmsOfPages(received[c], k - 1)

\* pages 1 and 2 had films, page 3 was empty, and the call has returned
C1_Witness ==
  \E c \in Calls :
    /\ IsListing(c)
    /\ pc[c] = "done"
    /\ Len(received[c]) = 3
    /\ EmptyPage(received[c][3])
    /\ Len(result[c]) >= 2

\* C2: in fetchWatchedFilms and fetchWatchlist, when the response for page k
\* has a non-success status the call has returned (it did not fail), page k
\* is the last request, and the result is the films of pages 1..k-1 (none
\* when k = 1): the body of the failed page adds nothing.
C2_FailedPageEndsRun ==
  \A c \in Calls :
    IsListing(c) =>
      \A k \in DOMAIN received[c] :
        received[c][k].outcome = "fail"
        => /\ pc[c] = "done"
           /\ Len(requested[c]) = k
           /\ Len(received[c]) = k
           /\ result[c] = FilmsOfPages(received[c], k - 1)

\* page 1 had films, page 2 came with a non-success status and a body that
\* shows a poster
C2_Witness ==
  \E c \in Calls :
    /\ IsListing(c)
    /\ Len(received[c]) = 2
    /\ received[c][2].outcome = "fail"
    /\ parseFilmsPage(received[c][2].body) # << >>
    /\ pc[c] = "done"
    /\ result[c] # << >>

\* C3: fetchWatchlist never requests a page above 20 and fetchWatchedFilms
\* never one above 50; when every page is successful and non-empty the call
\* ends after exactly that many requests and returns the films of all of them.
C3_CeilingEnforced ==
  \A c \in Calls :
    /\ kind[c] = "watchlist" => \A i \in DOMAIN requested[c] : PageOf(requested[c][i]) <= 20
    /\ kind[c] = "films" => \A i \in DOMAIN requested[c] : PageOf(requested[c][i]) <= 50
    /\ (IsListing(c) /\ pc[c] = "done" /\ AllGood(c))
         => /\ Len(requested[c]) = (IF kind[c] = "films" THEN 50 ELSE 20)
            /\ result[c] = FilmsOfPages(received[c], Len(received[c]))
    /\ (IsListing(c) /\ Len(received[c]) = (IF kind[c] = "films" THEN 50 ELSE 20)
          /\ AllGood(c))
         => pc[c] \in {"text", "done"}

\* a watchlist run that got twenty good pages and returned them all
C3_Witness ==
  \E c \in Calls :
    /\ kind[c] = "watchlist"
    /\ pc[c] = "done"
    /\ AllGood(c)
    /\ Len(requested[c]) = 20
    /\ Len(result[c]) >= 20

\* C4: a network error (the fetch promise rejects) on a page of
\* fetchWatchedFilms or fetchWatchlist ends the pagination without an
\* exception: the call returns the films of the earlier pages.
C4_NetworkErrorEndsRun ==
  \A c \in Calls :
    IsListing(c) =>
      \A k \in DOMAIN received[c] :
        received[c][k].outcome = "neterr"
        => /\ pc[c] = "done"
           /\ result[c] = FilmsOfPages(received[c], k - 1)

\* C9: within one call of fetchWatchedFilms or fetchWatchlist the pages
\* requested are 1, 2, 3, ... in this order, at most one fetch is in flight,
\* and page n > 1 is requested only after page n-1 was received with a
\* success status and parsed to at least one film.
C9_PagesInOrder ==
  \A c \in Calls :
    IsListing(c) =>
      /\ \A i \in DOMAIN requested[c] : PageOf(requested[c][i]) = i
      /\ inflight[c] \in {0, 1}
      /\ Len(requested[c]) - Len(received[c]) = inflight[c]
      /\ \A n \in 2..Len(requested[c]) :
           /\ n - 1 <= Len(received[c])
           /\ GoodPage(received[c][n - 1])

\* a run that is waiting for page 3
C9_Witness ==
  \E c \in Calls :
    /\ IsListing(c)
    /\ pc[c] = "fetch"
    /\ Len(requested[c]) >= 3
    /\ inflight[c] = 1

\* the feed items that yield a record, in document order
HasTitle(item) == TitleMatch(item).found
KeptItems(xml) == SelectSeq(FeedItems(xml, 1), HasTitle)
\* a feed call that has returned, and the document it was given
FeedReturned(c) == kind[c] = "feed" /\ pc[c] = "done"
FeedBody(c) == received[c][1].body

\* C5: fetchRecentActivity surfaces a non-success status of the feed response
\* as a failed call: it does not return a film sequence then.
C5_FeedFailureSurfaces ==
  \A c \in Calls :
    (kind[c] = "feed" /\ received[c] # << >> /\ received[c][1].outcome = "fail")
      => pc[c] # "done"

\* C6: every Film returned by fetchRecentActivity, fetchWatchedFilms or
\* fetchWatchlist has a non-empty title.
C6_TitlesNonEmpty ==
  \A c \in Calls :
    pc[c] = "done" => \A i \in DOMAIN result[c] : result[c][i].title # << >>

\* the first match of one to five stars and an optional half star
OneToFive(desc, i, j) ==
  IF j <= Len(desc) /\ desc[j] = Half THEN Some(SubSeq(desc, i, j))
  ELSE Some(SubSeq(desc, i, j - 1))
FiveStarRating(desc, i) ==
  IF i = 0 THEN Null
  ELSE OneToFive(desc, i, LeastOr({RunEnd(desc, i, {Star}), i + 5}, 0))

\* C7: every rating fetchRecentActivity produces is the first match, left to
\* right, of one to five star glyphs and an optional half-star glyph in the
\* item's description, and is absent when the description has no star.
C7_RatingOneToFive ==
  \A c \in Calls :
    FeedReturned(c) =>
      /\ Len(result[c]) = Len(KeptItems(FeedBody(c)))
      /\ \A i \in DOMAIN result[c] :
           result[c][i].rating =
             IF DescMatch(KeptItems(FeedBody(c))[i]).found
             THEN FiveStarRating(DescMatch(KeptItems(FeedBody(c))[i]).cap,
                                 IndexOf(DescMatch(KeptItems(FeedBody(c))[i]).cap, <<Star>>, 1))
             ELSE Null

\* the description field of an item: its raw-text-escaped form when present,
\* otherwise its plain form
PlainDesc(item) == LazyMatch(item, DescOpen, DescClose, TRUE, 1)
Description(item) == OrElse(DescMatch(item), PlainDesc(item))

\* C8: for every feed item that yields a record, rewatch is true exactly when
\* the item's description (escaped form, else plain form) contains
\* "Rewatched"; an item with no description yields rewatch = false and no
\* rating and no watchDate.
C8_RewatchIffDescriptionSaysSo ==
  \A c \in Calls :
    FeedReturned(c) =>
      /\ Len(result[c]) = Len(KeptItems(FeedBody(c)))
      /\ \A i \in DOMAIN result[c] :
           /\ result[c][i].rewatch =
                (/\ Description(KeptItems(FeedBody(c))[i]).found
                 /\ Includes(Description(KeptItems(FeedBody(c))[i]).cap, "Rewatched"))
           /\ ~Description(KeptItems(FeedBody(c))[i]).found
                => /\ result[c][i].rating = Null
                   /\ result[c][i].watchDate = Null

\* what a call of kind k does when it runs alone and is given the responses
\* rs in this order: "pending" while it waits for the next one
RECURSIVE ListingAlone(_, _, _, _)
AloneAfterPage(rs, i, acc, ceiling, pageFilms) ==
  IF pageFilms = << >> THEN [status |-> "done", value |-> acc]
  ELSE ListingAlone(rs, i + 1, acc \o pageFilms, ceiling)
ListingAlone(rs, i, acc, ceiling) ==
  IF i > ceiling THEN [status |-> "done", value |-> acc]
  ELSE IF i > Len(rs) THEN [status |-> "pending", value |-> acc]
  ELSE IF rs[i].outcome = "neterr" THEN [status |-> "failed", value |-> << >>]
  ELSE IF rs[i].outcome = "fail" THEN [status |-> "done", value |-> acc]
  ELSE AloneAfterPage(rs, i, acc, ceiling, parseFilmsPage(rs[i].body))

FeedAlone(rs) ==
  IF rs = << >> THEN [status |-> "pending", value |-> << >>]
  ELSE IF rs[1].outcome = "neterr" THEN [status |-> "failed", value |-> << >>]
  ELSE [status |-> "done", value |-> ParseFeed(rs[1].body)]

Alone(k, rs) ==
  CASE k = "feed" -> FeedAlone(rs)
    [] k = "films" -> ListingAlone(rs, 1, << >>, 50)
    [] k = "watchlist" -> ListingAlone(rs, 1, << >>, 20)

\* the films of all the bodies a call received
Range(fs) == {fs[i] : i \in DOMAIN fs}
FilmsSeen(c) ==
  UNION {Range(parseFilmsPage(received[c][k].body)) : k \in DOMAIN received[c]}
AllIn(fs, seen) == \A i \in DOMAIN fs : fs[i] \in seen

\* call c stands where the run alone stands
AgreesWith(c, alone) ==
  /\ pc[c] = "done" => (alone.status = "done" /\ result[c] = alone.value)
  /\ pc[c] = "failed" => alone.status = "failed"
  /\ (pc[c] = "fetch" /\ IsListing(c)) =>
       (alone.status = "pending" /\ films[c] = alone.value)

\* C10: when several calls run concurrently, each call returns what it
\* returns when run alone against the responses it was given, a call fails
\* only when it fails alone, a waiting call has accumulated what it has alone,
\* and a listing call returns no film that is not in one of its own pages.
C10_CallsIndependent ==
  \A c \in Calls :
    kind[c] # "none" =>
      /\ AgreesWith(c, Alone(kind[c], received[c]))
      /\ (pc[c] = "done" /\ IsListing(c)) => AllIn(result[c], FilmsSeen(c))

\* two calls for the same listing overlap: one has returned its films while
\* the other, past its first page, still waits for a fetch
C10_Witness ==
  \E c \in Calls, d \in Calls :
    /\ c # d
    /\ IsListing(c)
    /\ kind[d] = kind[c]
    /\ pc[c] = "done"
    /\ result[c] # << >>
    /\ pc[d] = "fetch"
    /\ films[d] # << >>

====
